---- MODULE Spec2Model ----
(***************************************************************************)
(* The storage writer of the host monitor: producers hand events to        *)
(* write_event, DatabaseWorker queues them, its worker thread batches them *)
(* and writes each batch to the unified_events table and to the vector     *)
(* index; get_recent_events reads the table back; the server's lifespan    *)
(* shuts the process down.                                                 *)
(*                                                                         *)
(* Time is counted in whole seconds.  The worker's time.time()-last_flush  *)
(* is the variable elapsed; it is capped one second above the flush        *)
(* interval, where the comparison `> 3` no longer changes.                 *)
(***************************************************************************)
EXTENDS Integers, Sequences, FiniteSets, TLC

\* ---------------------------------------------------------------- bounds
\* Calls of write_event in one behaviour of Spec.
MaxCalls == 3
\* Largest limit a reader passes to get_recent_events.
MaxLimit == 2
\* A queue capacity to test the unbounded queue against (the code names none).
AssumedCapacity == 2
\* Calls of write_event in one behaviour of BulkSpec: enough to fill a batch.
BulkCalls == 50
\* Events the monitors write in one behaviour of MonitorSpec.
MaxMonitorWrites == 2
\* Seconds by which the monitors' clock advances in one step.
ClockStep == 10
\* Failed socket opens followed in one behaviour.
MaxSockErrors == 2
\* Requests the RPC surface serves in one behaviour of ToolSpec.
MaxToolCalls == 2
\* Calls of write_event in one behaviour of ToolSpec.
ToolWrites == 2
\* Records the event log holds in one behaviour of WinSpec.
MaxRecords == 5
\* Services the OS lists in one collect_service_events call.
MaxListed == 51

\* ------------------------------------------------------ program constants
\* database.py:61  len(batch) >= 50
FLUSH_SIZE == 50
\* database.py:61  time.time() - last_flush > 3
FLUSH_INTERVAL == 3
\* database.py:18  queue.Queue(): maxsize 0, which Queue reads as no limit
QUEUE_MAXSIZE == 0

MaxElapsed == FLUSH_INTERVAL + 1

\* models/unified.py:13
EventType ==
  {"network_flow", "process", "service_event", "hardware_spike", "malware_alert"}

\* The attributes of a DatabaseWorker instance (database.py:16-111).
DatabaseWorkerAttrs ==
  {"queue", "running", "engine", "thread", "add_event", "_worker_loop",
   "get_recent_events", "_save_batch"}

\* ----------------------------------------------------------------- inputs
\* What a producer can pass to write_event.  kind is the Python object:
\*   "UnifiedEvent"  a validated model (type is in EventType),
\*   "object"        an object with the four attributes that never went
\*                   through validation (model_construct, or an attribute
\*                   assigned after construction),
\*   "dict"          a plain non-empty dict (truthy, no attributes),
\*   "None"          None.
NoDetails == [pid |-> "0"]
NoMeta == [os |-> "none"]

ProcA ==
  [kind |-> "UnifiedEvent", type |-> "process", timestamp |-> 1,
   details |-> [pid |-> "1", name |-> "bash"],
   metadata |-> [os |-> "linux", collector |-> "psutil"]]

\* ProcessEvent.model_dump carries the ProcessEvent's own timestamp
\* (models/process.py:33), so a collected process event has a details key
\* "timestamp".
ProcB ==
  [kind |-> "UnifiedEvent", type |-> "process", timestamp |-> 2,
   details |-> [pid |-> "2", name |-> "miner", timestamp |-> "T9"],
   metadata |-> [os |-> "linux", collector |-> "psutil"]]

NetA ==
  [kind |-> "UnifiedEvent", type |-> "network_flow", timestamp |-> 2,
   details |-> [dst |-> "8.8.8.8", os |-> "probe"],
   metadata |-> [os |-> "linux", collector |-> "scapy_socket"]]

Bogus ==
  [kind |-> "object", type |-> "bogus", timestamp |-> 1,
   details |-> [pid |-> "3"], metadata |-> [os |-> "linux"]]

DictEvent ==
  [kind |-> "dict", type |-> "process", timestamp |-> 1,
   details |-> NoDetails, metadata |-> NoMeta]

NoneEvent ==
  [kind |-> "None", type |-> "none", timestamp |-> 1,
   details |-> NoDetails, metadata |-> NoMeta]

\* collectors/linux.py:100-104 and 176-180: a service and a hardware event.
SvcA ==
  [kind |-> "UnifiedEvent", type |-> "service_event", timestamp |-> 1,
   details |-> [service_name |-> "cron", status |-> "active"],
   metadata |-> [os |-> "linux", collector |-> "systemd"]]

HwA ==
  [kind |-> "UnifiedEvent", type |-> "hardware_spike", timestamp |-> 2,
   details |-> [sub_type |-> "RESOURCE_HOG", name |-> "hog"],
   metadata |-> [os |-> "linux", collector |-> "hardware_pydantic"]]

Pool == {ProcA, ProcB, NetA, Bogus, DictEvent, NoneEvent}
BulkPool == {ProcA}

\* Python truthiness, as `if event:` reads it (storage_writer.py:15).
Truthy(p) == p.kind # "None"

\* Whether event.timestamp, .type, .details and .metadata can be read.
HasAttrs(p) == p.kind \in {"UnifiedEvent", "object"}

\* ---------------------------------------------------------------- helpers
Min(a, b) == IF a < b THEN a ELSE b

\* {**f, **g}: the keys of both, g's value where both have the key.
DictMerge(f, g) ==
  [k \in (DOMAIN f) \cup (DOMAIN g) |-> IF k \in DOMAIN g THEN g[k] ELSE f[k]]

\* datetime.isoformat(): the text form of a timestamp.
IsoStrings == <<"T1", "T2">>
IsoFormat(t) == IsoStrings[t]

\* datetime.timestamp(): seconds since the epoch.
EpochSeconds(t) == 1000 + t

\* --------------------------------------------------------- mapping layer
\* The position of a write_event call is the identity of the object passed.
Event(p, n) ==
  [ev |-> n, kind |-> p.kind, type |-> p.type, timestamp |-> p.timestamp,
   details |-> p.details, metadata |-> p.metadata]

\* database.py:47-52  UnifiedEventTable(...): the row of an event.  ev is
\* the identity of the object the row was built from.  The DateTime column
\* keeps the date and time; the timestamps here carry no UTC offset to lose.
DbRow(e) ==
  [ev |-> e.ev, timestamp |-> e.timestamp, event_type |-> e.type,
   details |-> e.details, metadata_fields |-> e.metadata]

\* database.py:105-111  one Session, add_all, one commit: every row of the
\* batch or, when the transaction fails, none.
SaveBatchPartial(rows, b, ok) ==
  IF ok THEN rows \o b ELSE rows \o SubSeq(b, 1, 1)
SaveBatch(rows, b, ok) ==
  IF ok THEN rows \o b ELSE rows

\* database.py:110-111  `except Exception` prints; nothing reaches the loop.
SaveBatchRaisesUncaught(ok) == ~ok
SaveBatchRaises(ok) == FALSE

\* ------------------------------------------------------ document builder
\* document_builder.py:35-53  the lines of the text: type, ISO timestamp,
\* one line per details item, then (when metadata is not empty) one line
\* per metadata item.
DocText(e) ==
  [type |-> e.type, timestamp |-> IsoFormat(e.timestamp),
   details |-> e.details, metadata |-> e.metadata]

\* hash(text) & 0xffffffff (document_builder.py:60): a function of the text
\* alone for the life of the process, and not injective.  HashSpace stands
\* for the 2^32 values of the mask.
HashSpace == 4
TypeCode(t) ==
  CASE t = "process" -> 1
    [] t = "network_flow" -> 2
    [] t = "service_event" -> 3
    [] t = "hardware_spike" -> 5
    [] t = "malware_alert" -> 7
    [] OTHER -> 11
TextCode(text) ==
  TypeCode(text.type)
    + 3 * Cardinality(DOMAIN text.details)
    + 5 * Cardinality(DOMAIN text.metadata)
    + (IF text.timestamp = "T1" THEN 0 ELSE 2)
ContentHash(text) == TextCode(text) % HashSpace

\* document_builder.py:61  f"{type}_{timestamp()}_{content_hash}"
DocIdTagged(e) ==
  <<e.type, EpochSeconds(e.timestamp), ContentHash(DocText(e)), e.ev>>
DocId(e) ==
  <<e.type, EpochSeconds(e.timestamp), ContentHash(DocText(e))>>

\* document_builder.py:68-79  the values here are strings already, so the
\* str() of lists and dicts changes none of them.
SafeMetadata(e) ==
  DictMerge([type |-> e.type, timestamp |-> IsoFormat(e.timestamp)],
            e.metadata)

\* document_builder.py:59-89
event_to_document(e) ==
  [id |-> DocId(e), text |-> DocText(e), metadata |-> SafeMetadata(e)]

\* Chroma's add_texts with ids: a document whose id is already in the
\* collection replaces the one stored.
Upsert(store, doc) == {d \in store : d.id # doc.id} \cup {doc}

RECURSIVE AddTexts(_, _)
AddTexts(store, docs) ==
  IF docs = <<>> THEN store
  ELSE AddTexts(Upsert(store, Head(docs)), Tail(docs))

\* rag/ingest.py:49-107  project every event, then one bulk insert; a
\* failure of the insert is caught and leaves the index as it was.
IngestPartial(store, events, ok) ==
  IF events = <<>> THEN store
  ELSE IF ~ok THEN Upsert(store, event_to_document(events[1]))
  ELSE AddTexts(store, [i \in 1..Len(events) |-> event_to_document(events[i])])
ingest_events(store, events, ok) ==
  IF events = <<>> \/ ~ok THEN store
  ELSE AddTexts(store, [i \in 1..Len(events) |-> event_to_document(events[i])])

\* rag/ingest.py:103-105 and database.py:69-70: the failure is caught twice.
IngestRaises(ok) == FALSE

\* ------------------------------------------------------------- query side
\* database.py:86  .where(event_type == T): the positions of the rows kept.
Matching(rows, T) == {i \in 1..Len(rows) : rows[i].event_type = T}

\* database.py:87  .order_by(timestamp.desc()): SQL fixes no order among rows
\* of equal timestamp, so every order that is non-increasing is possible.
Orderings(rows, T) ==
  LET m == Matching(rows, T)
      n == Cardinality(m)
  IN {s \in [1..n -> m] :
        /\ \A i, j \in 1..n : i # j => s[i] # s[j]
        /\ \A i, j \in 1..n :
             i < j => rows[s[i]].timestamp >= rows[s[j]].timestamp}

\* database.py:88  .limit(limit)
LimitOffByOne(s, L) == SubSeq(s, 1, Min(Len(s), L + 1))
Limit(s, L) == SubSeq(s, 1, Min(Len(s), L))

\* database.py:84-90  the row positions one SELECT can return.
SelectRecent(rows, T, L) == {Limit(s, L) : s \in Orderings(rows, T)}

\* database.py:93-100  {'timestamp': iso, **details, **metadata_fields}
RowToDict(row) ==
  DictMerge(DictMerge([timestamp |-> IsoFormat(row.timestamp)], row.details),
            row.metadata_fields)

\* ----------------------------------------------------------- writer loop
\* queue.Queue.put blocks while a queue of maxsize > 0 holds maxsize items.
QueueFull(q) == QUEUE_MAXSIZE > 0 /\ Len(q) >= QUEUE_MAXSIZE

\* database.py:32  self.queue.put(event)
QueuePutDropOldest(q, e) ==
  IF Len(q) >= AssumedCapacity THEN Append(Tail(q), e) ELSE Append(q, e)
QueuePutFront(q, e) == <<e>> \o q
QueuePut(q, e) == Append(q, e)

\* database.py:61  the flush condition.
FlushDueAnyBatch(b, el) == b # <<>>
FlushDueSizeOnly(b, el) == Len(b) >= FLUSH_SIZE
FlushDue(b, el) ==
  Len(b) >= FLUSH_SIZE \/ (b # <<>> /\ el > FLUSH_INTERVAL)

\* --------------------------------------------------------------- analysis
\* Text that analysis.py searches is a sequence of characters.  A value that
\* may be None is <<>> for None and <<v>> for v.
None == <<>>
Some(v) == <<v>>

UpperCase ==
  <<"A", "B", "C", "D", "E", "F", "G", "H", "I", "J", "K", "L", "M",
    "N", "O", "P", "Q", "R", "S", "T", "U", "V", "W", "X", "Y", "Z">>
LowerCase ==
  <<"a", "b", "c", "d", "e", "f", "g", "h", "i", "j", "k", "l", "m",
    "n", "o", "p", "q", "r", "s", "t", "u", "v", "w", "x", "y", "z">>

\* str.lower()
LowerChar(c) ==
  IF \E i \in 1..Len(UpperCase) : UpperCase[i] = c
    THEN LowerCase[CHOOSE i \in 1..Len(UpperCase) : UpperCase[i] = c]
    ELSE c
Lower(t) == [i \in 1..Len(t) |-> LowerChar(t[i])]

\* `part in text` and text.startswith(prefix)
Contains(t, part) ==
  \E i \in 1..(Len(t) - Len(part) + 1) : SubSeq(t, i, i + Len(part) - 1) = part
StartsWith(t, prefix) ==
  Len(t) >= Len(prefix) /\ SubSeq(t, 1, Len(prefix)) = prefix

\* dict.get(key) and dict.get(key, default)
Get(d, k) == IF k \in DOMAIN d THEN d[k] ELSE None
GetOr(d, k, default) == IF k \in DOMAIN d THEN d[k] ELSE default

\* analysis.py:23-31  None becomes '', a string stays.
normalize_str(x) == IF x = None THEN <<>> ELSE x[1]

\* Python's `a or b` on values that may be None or ''.
Falsy(x) == x = None \/ x = Some(<<>>)
OrElse(a, b) == IF Falsy(a) THEN b ELSE a

\* analysis.py:57
ROOTSWithoutRoot ==
  {<<"s", "y", "s", "t", "e", "m">>, <<"n", "t", " ", "a", "u", "t", "h", "o", "r", "i", "t", "y", "\\", "s", "y", "s", "t", "e", "m">>}
ROOTS ==
  {<<"r", "o", "o", "t">>, <<"s", "y", "s", "t", "e", "m">>, <<"n", "t", " ", "a", "u", "t", "h", "o", "r", "i", "t", "y", "\\", "s", "y", "s", "t", "e", "m">>}

\* analysis.py:96
suspicious_roots ==
  {<<"t", "m", "p">>, <<"p", "r", "i", "v", "a", "t", "e">>, <<"c", "a", "c", "h", "e">>, <<"s", "h", "m">>, <<"v", "a", "r", "/", "t", "m", "p">>, <<"a", "p", "p", "d", "a", "t", "a", "\\", "l", "o", "c", "a", "l", "\\", "t", "e", "m", "p">>}

\* analysis.py:91-106  the executable path.
ExePart(exe) ==
  IF exe = <<>>
    THEN [score |-> 2, reasons |-> <<"no_exe">>]
    ELSE LET inDir == \E part \in suspicious_roots : Contains(Lower(exe), part)
             long == Len(exe) > 260
         IN [score |-> (IF inDir THEN 2 ELSE 0) + (IF long THEN 1 ELSE 0),
             reasons |-> (IF inDir THEN <<"suspicious_dir">> ELSE <<>>)
                           \o (IF long THEN <<"long_path">> ELSE <<>>)]

\* analysis.py:114-119
CpuPartInclusive(cpu) ==
  IF cpu >= 50 THEN [score |-> 2, reasons |-> <<"high_cpu">>]
  ELSE IF cpu > 20 THEN [score |-> 1, reasons |-> <<"elevated_cpu">>]
  ELSE [score |-> 0, reasons |-> <<>>]
CpuPart(cpu) ==
  IF cpu > 50 THEN [score |-> 2, reasons |-> <<"high_cpu">>]
  ELSE IF cpu > 20 THEN [score |-> 1, reasons |-> <<"elevated_cpu">>]
  ELSE [score |-> 0, reasons |-> <<>>]

\* analysis.py:121-126
MemPart(mem) ==
  IF mem > 20 THEN [score |-> 2, reasons |-> <<"high_mem">>]
  ELSE IF mem > 10 THEN [score |-> 1, reasons |-> <<"elevated_mem">>]
  ELSE [score |-> 0, reasons |-> <<>>]

\* analysis.py:131-134
UserPart(username, cpu, mem) ==
  IF username # <<>> /\ Lower(username) \in ROOTS /\ (cpu > 10 \/ mem > 10)
    THEN [score |-> 2, reasons |-> <<"privileged">>]
    ELSE [score |-> 0, reasons |-> <<>>]

\* analysis.py:141-146  one connection.
ConnCounts(conn) ==
  LET remote == Get(conn, "remote_address")
      status == Lower(normalize_str(Get(conn, "status")))
  IN ~Falsy(remote) /\ status \notin {<<"e", "s", "t", "a", "b", "l", "i", "s", "h", "e", "d">>, <<"l", "i", "s", "t", "e", "n">>, <<"n", "o", "n", "e">>, <<>>}

\* analysis.py:139-146  the connections, in order.
RECURSIVE ConnPart(_)
ConnPart(conns) ==
  IF conns = <<>> THEN [score |-> 0, reasons |-> <<>>]
  ELSE LET rest == ConnPart(Tail(conns))
       IN IF ConnCounts(Head(conns))
            THEN [score |-> 1 + rest.score,
                  reasons |-> <<"conn_state">> \o rest.reasons]
            ELSE rest

\* analysis.py:60-154  for a dict argument.
analyze_process(proc) ==
  LET exe == normalize_str(Get(proc, "exe"))
      name == normalize_str(Get(proc, "name"))
      username == normalize_str(Get(proc, "username"))
      connections == GetOr(proc, "connections", <<>>)
      cpu == GetOr(proc, "cpu_percent", 0)
      mem == GetOr(proc, "memory_percent", 0)
      p1 == ExePart(exe)
      p2 == CpuPart(cpu)
      p3 == MemPart(mem)
      p4 == UserPart(username, cpu, mem)
      p5 == ConnPart(connections)
  IN [name |-> name, exe |-> exe, username |-> username,
      risk_score |-> p1.score + p2.score + p3.score + p4.score + p5.score,
      reasons |-> p1.reasons \o p2.reasons \o p3.reasons \o p4.reasons
                    \o p5.reasons]

\* analysis.py:197
bad_protocols == {<<"i", "c", "m", "p">>, <<"r", "a", "w">>, <<"g", "r", "e">>}

\* analysis.py:204-214  the destination is set and is neither private nor
\* the broadcast address.
IsPublicTenToo(dst) ==
  /\ ~Falsy(dst)
  /\ ~(\/ StartsWith(dst[1], <<"1", "9", "2", ".", "1", "6", "8", ".">>)
       \/ StartsWith(dst[1], <<"1", "2", "7", ".">>)
       \/ StartsWith(dst[1], <<"f", "e", "8", "0", ":">>))
  /\ dst[1] # <<"2", "5", "5", ".", "2", "5", "5", ".", "2", "5", "5", ".", "2", "5", "5">>
IsPublic(dst) ==
  /\ ~Falsy(dst)
  /\ ~(\/ StartsWith(dst[1], <<"1", "0", ".">>)
       \/ StartsWith(dst[1], <<"1", "9", "2", ".", "1", "6", "8", ".">>)
       \/ StartsWith(dst[1], <<"1", "2", "7", ".">>)
       \/ StartsWith(dst[1], <<"f", "e", "8", "0", ":">>))
  /\ dst[1] # <<"2", "5", "5", ".", "2", "5", "5", ".", "2", "5", "5", ".", "2", "5", "5">>

\* analysis.py:161-224  for a dict argument.
analyze_network_flow(flow) ==
  LET src == OrElse(Get(flow, "src"), Get(flow, "src_ip"))
      dst == OrElse(Get(flow, "dst"), Get(flow, "dst_ip"))
      size == IF GetOr(flow, "length", 0) # 0 THEN GetOr(flow, "length", 0)
              ELSE GetOr(flow, "packet_size", 0)
      protocol ==
        Lower(normalize_str(OrElse(GetOr(flow, "proto", Some(<<>>)),
                                   GetOr(flow, "protocol", Some(<<>>)))))
      big == size > 2000
      bad == protocol \in bad_protocols
      pub == IsPublic(dst)
  IN [src |-> src, dst |-> dst, protocol |-> protocol, size |-> size,
      risk_score |-> (IF big THEN 1 ELSE 0) + (IF bad THEN 1 ELSE 0)
                       + (IF pub THEN 1 ELSE 0),
      reasons |-> (IF big THEN <<"large_packet">> ELSE <<>>)
                    \o (IF bad THEN <<"bad_protocol">> ELSE <<>>)
                    \o (IF pub THEN <<"public_ip">> ELSE <<>>)]

\* ------------------------------------------------------- analysis inputs
\* Maps as the analyzers get them.  A key left out of the map is a missing
\* field; numbers are whole percents and bytes.
NoKey == <<>>
Field(k, present, v) == IF present THEN (k :> v) ELSE NoKey

LongPath == [i \in 1..261 |-> "a"]

ExeChoices ==
  {None, Some(<<>>), Some(<<"/", "u", "s", "r", "/", "b", "i", "n", "/", "f", "i", "r", "e", "f", "o", "x">>), Some(<<"/", "t", "m", "p", "/", "x">>),
   Some(<<"C", ":", "\\", "U", "s", "e", "r", "s", "\\", "a", "\\", "A", "p", "p", "D", "a", "t", "a", "\\", "L", "o", "c", "a", "l", "\\", "T", "e", "m", "p", "\\", "u", ".", "e", "x", "e">>), Some(LongPath)}
CpuChoices == {5, 15, 25, 50, 85}
MemChoices == {5, 11, 20, 21}
UserChoices == {None, Some(<<"a", "l", "i", "c", "e">>), Some(<<"r", "o", "o", "t">>), Some(<<"N", "T", " ", "A", "U", "T", "H", "O", "R", "I", "T", "Y", "\\", "S", "Y", "S", "T", "E", "M">>)}

ConnEstablished ==
  [remote_address |-> Some(<<"1", ".", "2", ".", "3", ".", "4">>), status |-> Some(<<"E", "S", "T", "A", "B", "L", "I", "S", "H", "E", "D">>)]
ConnSynSent ==
  [remote_address |-> Some(<<"5", ".", "6", ".", "7", ".", "8">>), status |-> Some(<<"S", "Y", "N", "_", "S", "E", "N", "T">>)]
ConnNoRemote ==
  [remote_address |-> None, status |-> Some(<<"C", "L", "O", "S", "E", "_", "W", "A", "I", "T">>)]
ConnChoices ==
  {<<>>, <<ConnEstablished>>, <<ConnSynSent, ConnNoRemote>>,
   <<ConnSynSent, ConnEstablished, ConnSynSent>>}

\* The process maps drawn: every field present or left out.
ProcessMaps ==
  {DictMerge(DictMerge(DictMerge(DictMerge(
       [pid |-> 7, name |-> Some(<<"a", "p", "p">>)],
       Field("exe", hasExe, exe)),
       Field("cpu_percent", hasNum, cpu)),
       Field("memory_percent", hasNum, mem)),
       DictMerge(Field("username", TRUE, user), Field("connections", hasConn, conns))) :
     hasExe \in BOOLEAN, exe \in ExeChoices, hasNum \in BOOLEAN,
     cpu \in CpuChoices, mem \in MemChoices, user \in UserChoices,
     hasConn \in BOOLEAN, conns \in ConnChoices}

\* The two processes the specification scores by hand.
Miner ==
  [pid |-> 42, name |-> Some(<<"m", "i", "n", "e", "r">>), exe |-> Some(<<"/", "t", "m", "p", "/", "x">>),
   cpu_percent |-> 85, memory_percent |-> 5, username |-> Some(<<"r", "o", "o", "t">>),
   connections |-> <<>>]
Browser ==
  [pid |-> 1000, name |-> Some(<<"f", "i", "r", "e", "f", "o", "x">>), exe |-> Some(<<"/", "u", "s", "r", "/", "b", "i", "n", "/", "f", "i", "r", "e", "f", "o", "x">>),
   cpu_percent |-> 5, memory_percent |-> 3, username |-> Some(<<"a", "l", "i", "c", "e">>),
   connections |-> <<ConnEstablished>>]

DstChoices ==
  {None, Some(<<"1", "0", ".", "0", ".", "0", ".", "1">>), Some(<<"1", "9", "2", ".", "1", "6", "8", ".", "1", ".", "5">>), Some(<<"1", "2", "7", ".", "0", ".", "0", ".", "1">>),
   Some(<<"f", "e", "8", "0", ":", ":", "1">>), Some(<<"2", "5", "5", ".", "2", "5", "5", ".", "2", "5", "5", ".", "2", "5", "5">>), Some(<<"8", ".", "8", ".", "8", ".", "8">>),
   Some(<<"1", "7", "2", ".", "1", "6", ".", "0", ".", "9">>), Some(<<"1", "0", "0", ".", "1", ".", "1", ".", "1">>)}
ProtoChoices == {None, Some(<<"T", "C", "P">>), Some(<<"i", "c", "m", "p">>), Some(<<"I", "C", "M", "P">>), Some(<<"g", "r", "e">>), Some(<<"r", "a", "w">>)}
LengthChoices == {0, 60, 2000, 2001, 3000}

\* The flows drawn: under the keys NetworkEvent has, or under the second
\* names analyze_network_flow also reads.
NetworkFlows ==
  {DictMerge(DictMerge(
       Field(IF alt THEN "dst_ip" ELSE "dst", hasDst, dst),
       Field(IF alt THEN "protocol" ELSE "proto", hasProto, proto)),
       Field(IF alt THEN "packet_size" ELSE "length", hasLen, len)) :
     alt \in BOOLEAN, hasDst \in BOOLEAN, dst \in DstChoices,
     hasProto \in BOOLEAN, proto \in ProtoChoices,
     hasLen \in BOOLEAN, len \in LengthChoices}

IcmpTunnel ==
  [dst |-> Some(<<"8", ".", "8", ".", "8", ".", "8">>), proto |-> Some(<<"i", "c", "m", "p">>), length |-> 3000]

\* ------------------------------------------------- service and hardware
\* str.upper()
UpperChar(c) ==
  IF \E i \in 1..Len(LowerCase) : LowerCase[i] = c
    THEN UpperCase[CHOOSE i \in 1..Len(LowerCase) : LowerCase[i] = c]
    ELSE c
Upper(t) == [i \in 1..Len(t) |-> UpperChar(t[i])]

\* analysis.py:231-262  for a dict argument.  event_id is None or a number;
\* str(event_id) is in ['7034', '7031'] for the numbers 7034 and 7031.
analyze_service_event(event) ==
  LET service_name == OrElse(Get(event, "service_name"), Get(event, "name"))
      event_id == Get(event, "event_id")
      level == Lower(normalize_str(GetOr(event, "level", Some(<<"i", "n", "f", "o">>))))
      severe == level \in {<<"e", "r", "r", "o", "r">>, <<"c", "r", "i", "t", "i", "c", "a", "l">>, <<"f", "a", "t", "a", "l">>}
      crash == event_id \in {Some(7034), Some(7031)}
  IN [service |-> service_name, event_id |-> event_id,
      risk_score |-> (IF severe THEN 2 ELSE 0) + (IF crash THEN 1 ELSE 0),
      reasons |-> (IF severe THEN <<"severe_level">> ELSE <<>>)
                    \o (IF crash THEN <<"service_crash">> ELSE <<>>)]

\* analysis.py:265-339  for a dict argument: the metrics are read under
\* event['details']['metrics'].
analyze_hardware(event) ==
  LET details == GetOr(event, "details", NoKey)
      metrics == GetOr(details, "metrics", NoKey)
      sub_type == Upper(normalize_str(Get(details, "sub_type")))
      exe == normalize_str(Get(details, "exe"))
      name == normalize_str(Get(details, "name"))
      cpu == GetOr(metrics, "cpu_percent", 0)
      mem == GetOr(metrics, "memory_percent", 0)
      gpu_mem == GetOr(metrics, "gpu_memory_mb", 0)
      badPath == exe # <<>> /\ \E part \in {<<"t", "m", "p">>, <<"t", "e", "m", "p">>, <<"c", "a", "c", "h", "e">>, <<"s", "h", "m">>, <<"a", "p", "p", "d", "a", "t", "a">>} :
                                 Contains(Lower(exe), part)
      score == (IF cpu > 80 THEN 3 ELSE IF cpu > 50 THEN 1 ELSE 0)
                 + (IF gpu_mem > 1000 THEN 2 ELSE 0)
                 + (IF mem > 70 THEN 4 ELSE IF mem > 40 THEN 2 ELSE 0)
                 + (IF badPath /\ (cpu > 30 \/ gpu_mem > 500) THEN 4 ELSE 0)
                 + (IF sub_type = <<"G", "P", "U", "_", "U", "S", "A", "G", "E">> /\ exe = <<>> THEN 1 ELSE 0)
      gpuNoPath == sub_type = <<"G", "P", "U", "_", "U", "S", "A", "G", "E">> /\ exe = <<>>
  IN [process |-> name, path |-> exe, risk_score |-> Min(score, 10),
      reasons |-> (IF cpu > 80 THEN <<"critical_cpu">>
                   ELSE IF cpu > 50 THEN <<"elevated_cpu">> ELSE <<>>)
                    \o (IF gpu_mem > 1000 THEN <<"heavy_gpu">> ELSE <<>>)
                    \o (IF mem > 70 THEN <<"critical_mem">>
                        ELSE IF mem > 40 THEN <<"high_mem">> ELSE <<>>)
                    \o (IF badPath /\ (cpu > 30 \/ gpu_mem > 500)
                          THEN <<"suspicious_path">> ELSE <<>>)
                    \o (IF gpuNoPath THEN <<"gpu_no_path">> ELSE <<>>),
      metrics |-> [cpu |-> cpu, ram |-> mem, gpu_vram |-> gpu_mem]]

\* ------------------------------------------------------------ tool inputs
\* Events as the collectors build them, their details in the analyzers'
\* encoding.
MinerEvent ==
  [kind |-> "UnifiedEvent", type |-> "process", timestamp |-> 1,
   details |-> Miner, metadata |-> [os |-> "linux", collector |-> "psutil"]]
BrowserEvent ==
  [kind |-> "UnifiedEvent", type |-> "process", timestamp |-> 2,
   details |-> Browser, metadata |-> [os |-> "linux", collector |-> "psutil"]]
IcmpEvent ==
  [kind |-> "UnifiedEvent", type |-> "network_flow", timestamp |-> 2,
   details |-> IcmpTunnel,
   metadata |-> [os |-> "linux", collector |-> "scapy_socket"]]
LanEvent ==
  [kind |-> "UnifiedEvent", type |-> "network_flow", timestamp |-> 2,
   details |-> [dst |-> Some(<<"1", "0", ".", "0", ".", "0", ".", "1">>), proto |-> Some(<<"I", "P">>), length |-> 60],
   metadata |-> [os |-> "linux", collector |-> "scapy_socket"]]
CrashEvent ==
  [kind |-> "UnifiedEvent", type |-> "service_event", timestamp |-> 1,
   details |-> [service_name |-> Some(<<"D", "H", "C", "P">>), event_id |-> Some(7034)],
   metadata |-> [os |-> "windows", collector |-> "event_log"]]
HogEvent ==
  [kind |-> "UnifiedEvent", type |-> "hardware_spike", timestamp |-> 1,
   details |-> [sub_type |-> Some(<<"R", "E", "S", "O", "U", "R", "C", "E", "_", "H", "O", "G">>), exe |-> Some(<<"/", "t", "m", "p", "/", "h", "o", "g">>),
                metrics |-> [cpu_percent |-> 90, memory_percent |-> 75]],
   metadata |-> [os |-> "linux", collector |-> "hardware_pydantic"]]

ToolPool == {MinerEvent, BrowserEvent, IcmpEvent, LanEvent, CrashEvent, HogEvent}

\* ------------------------------------------------------- analyze_event
\* analysis.py:342-357  for a dict argument.
analyze_malware_event(event) ==
  LET details == GetOr(event, "details", NoKey)
  IN [risk_level |-> Get(details, "risk_score"),
      suspect_process |-> Get(details, "name"),
      binary_path |-> Get(details, "exe"),
      detection_reasons |-> Get(details, "reasons"),
      verdict_needed |-> GetOr(details, "risk_score", 0) > 5]

\* analysis.py:360-366  the keys of EVENT_TO_TYPE.
EVENT_TO_TYPE ==
  {"process", "network_flow", "service_event", "hardware_spike",
   "malware_event"}

\* analysis.py:384  EVENT_TO_TYPE[etype](event)
Dispatch(etype, event) ==
  CASE etype = "process" -> analyze_process(event)
    [] etype = "network_flow" -> analyze_network_flow(event)
    [] etype = "service_event" -> analyze_service_event(event)
    [] etype = "hardware_spike" -> analyze_hardware(event)
    [] OTHER -> analyze_malware_event(event)

\* analysis.py:369-389  for a dict argument; a type is a plain string or
\* missing.
analyze_event(event) ==
  LET etype == IF "type" \in DOMAIN event /\ event.type # ""
                 THEN event.type ELSE GetOr(event, "event_type", "")
  IN IF etype \in EVENT_TO_TYPE
       THEN Dispatch(etype, event)
       ELSE [risk_score |-> 0, reasons |-> <<"unknown_type">>]

\* The events handed to analyze_event: a type (or none) under either key,
\* over the bodies the analyzers read.
DispatchTypes == EventType \cup {"malware_event", "usb_insert"}
DispatchBodies ==
  {Miner, Browser, IcmpTunnel, CrashEvent.details,
   [details |-> HogEvent.details],
   [details |-> [risk_score |-> 8, name |-> Some(<<"d", "r", "o", "p", "p", "e", "r">>),
                 exe |-> Some(<<"/", "t", "m", "p", "/", "d">>), reasons |-> <<"hidden_binary">>]],
   [details |-> [name |-> Some(<<"c", "r", "o", "n">>)]],
   NoKey}
DispatchEvents ==
  {DictMerge(body, Field(key, TRUE, t)) :
     body \in DispatchBodies, key \in {"type", "event_type"},
     t \in DispatchTypes}
    \cup DispatchBodies


\* ------------------------------------------------------------------ tools
\* database.py:77  get_recent_events(event_type, limit=50)
DEFAULT_LIMIT == 50
\* server.py:149 and 267  the tools' own default limits
NETWORK_FLOWS_LIMIT == 10
HARDWARE_SPIKES_LIMIT == 15
\* rag/engine.py:60  retrieve(query, limit=5)
RAG_LIMIT == 5

\* The analyzer each tool maps over the events of a type
\* (server.py:204, 236, 257, 279, 310-313).
AnalyzerOf(T, e) ==
  CASE T = "process" -> analyze_process(e)
    [] T = "network_flow" -> analyze_network_flow(e)
    [] T = "service_event" -> analyze_service_event(e)
    [] OTHER -> analyze_hardware(e)

\* list.sort(key=risk_score, reverse=True): stable, so entries of equal
\* score keep the order they were read in.
RECURSIVE InsertByRisk(_, _)
InsertByRisk(x, sorted) ==
  IF sorted = <<>> THEN <<x>>
  ELSE IF Head(sorted).risk_score <= x.risk_score THEN <<x>> \o sorted
  ELSE <<Head(sorted)>> \o InsertByRisk(x, Tail(sorted))

KeepOrder(entries) == entries
RECURSIVE SortByRisk(_)
SortByRisk(entries) ==
  IF entries = <<>> THEN <<>>
  ELSE InsertByRisk(Head(entries), SortByRisk(Tail(entries)))

\* What a tool returns, in one shape: per event type the analysis list and
\* the number of events read for it, and the total_* fields it carries.
NoToolOut ==
  [tool |-> "none", lists |-> NoKey, totals |-> NoKey, events |-> <<>>,
   hits |-> 0]

\* ---------------------------------------------- Windows service collector
Max(a, b) == IF a > b THEN a ELSE b

\* windows.py:81-83  ReadEventLog with EVENTLOG_BACKWARDS_READ |
\* EVENTLOG_SEQUENTIAL_READ: one
\* buffer of k records, the newest first.  The log holds records 1..n.
RawEvents(n, k) == [i \in 1..k |-> n - i + 1]

\* No collect_service_events call made yet.
NoWinCall == [done |-> FALSE, raw |-> <<>>, wm0 |-> 0, clean |-> FALSE]

\* windows.py:91-92  the watermark after a record that was not skipped.
WatermarkKept(wm, rec) == wm
WatermarkAfter(wm, rec) == Max(wm, rec)

\* windows.py:85-101  the loop over raw_events[:limit] from position i on.
\* failAt is the position whose ServiceEvent.from_windows raises (the loop
\* ends there and the events appended so far are returned); a position
\* past the end means nothing raises.
RECURSIVE ServiceLoop(_, _, _, _, _)
ServiceLoop(raw, i, wm, events, failAt) ==
  IF i > Len(raw) THEN [wm |-> wm, events |-> events]
  ELSE IF raw[i] <= wm THEN ServiceLoop(raw, i + 1, wm, events, failAt)
  ELSE IF i = failAt
         THEN [wm |-> WatermarkAfter(wm, raw[i]), events |-> events]
  ELSE ServiceLoop(raw, i + 1, WatermarkAfter(wm, raw[i]),
                   Append(events, raw[i]), failAt)

\* ------------------------------------------------------ collector factory
\* collectors/base.py:10-33  the abstract methods of BaseOSCollector.
AbstractMethods ==
  {"collect_process_events", "collect_service_events",
   "collect_network_events", "collect_hardware_events",
   "collect_malware_events"}

\* The methods each collector class defines (windows.py:34-150,
\* linux.py:35-208, mac.py:34-222).
Methods(cls) ==
  CASE cls = "WindowsCollector" ->
         {"collect_process_events", "collect_service_events",
          "collect_network_events"}
    [] cls = "LinuxCollector" -> AbstractMethods
    [] cls = "MacCollector" -> AbstractMethods

\* collectors/factory.py:11-15
collectors ==
  [windows |-> "WindowsCollector", linux |-> "LinuxCollector",
   darwin |-> "MacCollector"]

\* platform.system().lower() on the hosts followed.
OsNames == {"windows", "linux", "darwin", "freebsd", "sunos"}

NoCollector == [state |-> "none", cls |-> "none", error |-> "none"]

\* cls(): a class that leaves an abstract method of its ABC undefined
\* cannot be instantiated (TypeError).
Instantiate(cls) ==
  IF AbstractMethods \subseteq Methods(cls)
    THEN [state |-> "instance", cls |-> cls, error |-> "none"]
    ELSE [state |-> "raised", cls |-> "none", error |-> "TypeError"]

\* collectors/factory.py:33-40
GetCollectorResult(os) ==
  IF os \in DOMAIN collectors
    THEN Instantiate(collectors[os])
    ELSE [state |-> "raised", cls |-> "none", error |-> "RuntimeError"]

\* ------------------------------------------- service snapshots, by class
\* background.py:61  the limit the service monitor passes
SERVICE_LIMIT == 50

NoCall == [done |-> FALSE, limit |-> 0, listed |-> 0, events |-> <<>>]

\* linux.py:81-107  one event per entry systemctl listed; the limit is not
\* read.  ok is FALSE when getoutput raises or its output is not JSON.
LinuxServiceEvents(listed, limit, ok) ==
  IF ok THEN [i \in 1..listed |-> i] ELSE <<>>

\* mac.py:85-100  the lines of lines[:limit] that have three parts; line 1
\* is the malformed one when firstBad.
RECURSIVE MacLoop(_, _, _, _)
MacLoop(i, n, firstBad, events) ==
  IF i > n THEN events
  ELSE IF firstBad /\ i = 1 THEN MacLoop(i + 1, n, firstBad, events)
  ELSE MacLoop(i + 1, n, firstBad, Append(events, i))

\* mac.py:79-106  ok is FALSE when anything in the try raises.
MacServiceEvents(listed, limit, firstBad, ok) ==
  IF ok THEN MacLoop(1, Min(listed, limit), firstBad, <<>>) ELSE <<>>

\* --------------------------------------------------------------- monitors
\* models/background.py:158-163  the four tasks start_background_monitors
\* creates; the three that poll a collector through asyncio.to_thread.
Monitors == {"process", "service", "network", "hardware"}
Polling == {"process", "service", "hardware"}

\* background.py:35, 69, 143 and 112  the sleep that ends an iteration.
SleepSeconds(m) ==
  CASE m = "process" -> 10
    [] m = "service" -> 30
    [] m = "hardware" -> 15
    [] OTHER -> 1

\* background.py:45, 79, 150  the sleep of the `except Exception` handler.
ErrorSleepNone(m) == 0
ErrorSleepSeconds(m) ==
  CASE m = "process" -> 10
    [] m = "service" -> 30
    [] OTHER -> 15

\* What one collect call can hand back: it raises, or returns a list.
Raised == [ok |-> FALSE, events |-> <<>>]
Returned(evs) == [ok |-> TRUE, events |-> evs]
CollectOutcomes(m) ==
  CASE m = "process" ->
         {Raised, Returned(<<>>), Returned(<<ProcA>>), Returned(<<ProcA, ProcB>>)}
    [] m = "service" ->
         {Raised, Returned(<<>>), Returned(<<SvcA>>), Returned(<<SvcA, SvcA>>)}
    [] OTHER ->
         {Raised, Returned(<<>>), Returned(<<HwA>>), Returned(<<HwA, HwA>>)}

\* background.py:31-32  for ev in events: write_event(ev), from call n + 1 on.
RECURSIVE WriteAll(_, _, _)
WriteAll(q, evs, n) ==
  IF evs = <<>> THEN q
  ELSE WriteAll(IF Truthy(Head(evs)) THEN QueuePut(q, Event(Head(evs), n + 1))
                ELSE q,
                Tail(evs), n + 1)

\* A task can be given a CancelledError, and any other code of the event
\* loop can run, only while the task stands at an await, has not begun or
\* has finished.  Between `if events:` and the sleep (background.py:30-35,
\* 64-69, 139-143) there is no await: "writing" is the one position that is
\* not a suspension point.
TaskStates == {"pending", "collect", "writing", "sleep", "errsleep", "done"}
SuspendedInLoopToo(st) == st \in TaskStates
Suspended(st) == st \in TaskStates \ {"writing"}

\* The list a task is writing: what is left of it, how long the list its
\* collect call returned was, and how many of its events were put.
NoSnapshot == [pending |-> <<>>, got |-> 0, put |-> 0]

\* ------------------------------------------------------------------ state
VARIABLES
  queue,      \* DatabaseWorker.queue: the events put and not yet got
  running,    \* DatabaseWorker.running
  nCalls,     \* write_event calls made so far
  accepted,   \* the calls whose event was put on the queue
  wpc,        \* the worker thread: "run" or "dead"
  batch,      \* _worker_loop's batch: rows not yet saved
  rag_batch,  \* _worker_loop's rag_batch: the same events, for the index
  elapsed,    \* time.time() - last_flush, in seconds, capped at MaxElapsed
  batchAge,   \* seconds since the oldest row of batch was appended, capped
  crashed,    \* the events whose mapping raised in the worker thread
  sql,        \* the rows of unified_events, in insert order
  vec,        \* the documents of the vector collection
  flushed,    \* per event flushed: how its batch's two writes went, its document
  lastFlush,  \* the latest flush: "none", "full" (50 rows or more) or "timed"
  rd,         \* a get_recent_events call: its arguments and its rows
  shutdown,   \* the lifespan's exit: "none", "raised" or "returned"
  phase,      \* the process: "running" or "exited"
  task,       \* per monitor task: one of TaskStates
  timer,      \* per monitor task: seconds left of the sleep it awaits
  job,        \* per monitor: the to_thread call, "none" or "running"
  cancelled,  \* the lifespan has called cancel() on every task
  lost,       \* the monitors of which a collected list was discarded
  snap,       \* per polling monitor: the list its latest collect call returned
  sniffer,    \* the sniffer thread: "unstarted", "opening" or "streaming"
  sockErrors, \* the times the socket failed to open and the failure was printed
  analysed,   \* the analyzer called last: "none", "process" or "network_flow"
  subject,    \* the map it was given
  verdict,    \* the map it returned
  toolCalls,  \* tool and resource calls made so far
  toolOut,    \* what the latest tool call returned
  toolCollects, \* the collector calls made by tool handlers
  evlog,      \* the Windows System log: records 1..evlog exist
  last_service_record_number, \* WindowsCollector's watermark
  returned,   \* the record numbers earlier collect_service_events calls returned
  lastBatch,  \* the record numbers the latest call returned, in order
  winCall,    \* the latest call: its slice of the log and the watermark it began with
  os_name,    \* get_collector: platform.system().lower(), "unset" before the call
  collector,  \* what get_collector gave: an instance of a class, or what it raised
  svcCall     \* the latest collect_service_events call on the Linux or macOS collector

monVars == <<task, timer, job, cancelled, lost, snap, sniffer, sockErrors>>

anVars == <<analysed, subject, verdict>>

toolVars == <<toolCalls, toolOut, toolCollects>>

winVars ==
  <<evlog, last_service_record_number, returned, lastBatch, winCall>>

facVars == <<os_name, collector, svcCall>>

restVars == <<anVars, toolVars, winVars, facVars>>

otherVars == <<monVars, restVars>>

vars ==
  <<queue, running, nCalls, accepted, wpc, batch, rag_batch, elapsed,
    batchAge, crashed, sql, vec, flushed, lastFlush, rd, shutdown, phase,
    otherVars>>

writerVars ==
  <<queue, running, nCalls, accepted, wpc, batch, rag_batch, elapsed,
    batchAge, crashed, sql, vec, flushed, lastFlush>>

IdleRead ==
  [pc |-> "idle", type |-> "process", limit |-> 0, start |-> 0, seen |-> 0,
   rows |-> <<>>, failed |-> FALSE]

\* database.py:17-28 and 35-37: the state when the worker thread starts.
Init ==
  /\ queue = <<>>
  /\ running = TRUE
  /\ nCalls = 0
  /\ accepted = {}
  /\ wpc = "run"
  /\ batch = <<>>
  /\ rag_batch = <<>>
  /\ elapsed = 0
  /\ batchAge = 0
  /\ crashed = {}
  /\ sql = <<>>
  /\ vec = {}
  /\ flushed = <<>>
  /\ lastFlush = "none"
  /\ rd = IdleRead
  /\ shutdown = "none"
  /\ phase = "running"
  /\ task = [m \in Monitors |-> "pending"]
  /\ timer = [m \in Monitors |-> 0]
  /\ job = [m \in Monitors |-> "none"]
  /\ cancelled = FALSE
  /\ lost = {}
  /\ snap = [m \in Polling |-> NoSnapshot]
  /\ sniffer = "unstarted"
  /\ sockErrors = 0
  /\ analysed = "none"
  /\ subject = NoKey
  /\ verdict = NoKey
  /\ toolCalls = 0
  /\ toolOut = NoToolOut
  /\ toolCollects = 0
  /\ evlog = 0
  /\ last_service_record_number = 0
  /\ returned = {}
  /\ lastBatch = <<>>
  /\ winCall = NoWinCall
  /\ os_name = "unset"
  /\ collector = NoCollector
  /\ svcCall = NoCall

\* ---------------------------------------------------------------- actions
Alive == phase # "exited"

\* storage_writer.py:11-16 and database.py:30-32: write_event(p), the n-th
\* call.  A falsy argument is ignored; anything else is put on the queue.
write_event(p) ==
  /\ Alive
  /\ nCalls' = nCalls + 1
  /\ Truthy(p) => ~QueueFull(queue)
  /\ IF Truthy(p)
       THEN /\ queue' = QueuePut(queue, Event(p, nCalls + 1))
            /\ accepted' = accepted \cup {nCalls + 1}
       ELSE UNCHANGED <<queue, accepted>>
  /\ UNCHANGED <<running, wpc, batch, rag_batch, elapsed, batchAge, crashed,
                 sql, vec, flushed, lastFlush, rd, shutdown, phase,
                 otherVars>>

Produce(pool, max) ==
  /\ nCalls < max
  /\ \E p \in pool : write_event(p)

\* One second passes.
Tick ==
  /\ Alive
  /\ elapsed < MaxElapsed \/ (batch # <<>> /\ batchAge < MaxElapsed)
  /\ elapsed' = Min(elapsed + 1, MaxElapsed)
  /\ batchAge' = IF batch # <<>> THEN Min(batchAge + 1, MaxElapsed) ELSE 0
  /\ UNCHANGED <<queue, running, nCalls, accepted, wpc, batch, rag_batch,
                 crashed, sql, vec, flushed, lastFlush, rd, shutdown, phase,
                 otherVars>>

\* database.py:61-75  what the loop does after the get: when the flush is due,
\* _save_batch, ingest_events and the reset; then the next iteration.
\* b and rb are batch and rag_batch as the get left them, el and age the
\* clocks; sqlOuts and vecOuts are the ways the SQL transaction and the
\* bulk insert can go.
FlushCheck(b, rb, el, age, sqlOuts, vecOuts) ==
  IF FlushDue(b, el)
    THEN \E sqlOk \in sqlOuts, vecOk \in vecOuts :
           /\ sql' = SaveBatch(sql, b, sqlOk)
           /\ vec' = ingest_events(vec, rb, vecOk)
           /\ flushed' =
                [n \in (DOMAIN flushed) \cup {rb[i].ev : i \in 1..Len(rb)} |->
                   IF n \in DOMAIN flushed THEN flushed[n]
                   ELSE [sqlOk |-> sqlOk, vecOk |-> vecOk,
                         doc |-> event_to_document(
                                   rb[CHOOSE i \in 1..Len(rb) : rb[i].ev = n])]]
           /\ lastFlush' = IF Len(b) >= FLUSH_SIZE THEN "full" ELSE "timed"
           /\ batch' = <<>>
           /\ rag_batch' = <<>>
           /\ elapsed' = 0
           /\ batchAge' = 0
           /\ wpc' = IF SaveBatchRaises(sqlOk) \/ IngestRaises(vecOk)
                       THEN "dead" ELSE "run"
    ELSE /\ batch' = b
         /\ rag_batch' = rb
         /\ elapsed' = el
         /\ batchAge' = age
         /\ wpc' = "run"
         /\ UNCHANGED <<sql, vec, flushed, lastFlush>>

\* database.py:40-75  one iteration in which queue.get returned an event.
\* Reading the attributes of an object that has none raises AttributeError,
\* which only the `except queue.Empty` stands against: the thread ends.
WorkerGetEvent(sqlOuts, vecOuts) ==
  /\ Alive /\ wpc = "run" /\ running
  /\ queue # <<>>
  /\ LET e == Head(queue) IN
       /\ queue' = Tail(queue)
       /\ IF HasAttrs(e)
            THEN /\ FlushCheck(Append(batch, DbRow(e)), Append(rag_batch, e),
                               elapsed, IF batch = <<>> THEN 0 ELSE batchAge,
                               sqlOuts, vecOuts)
                 /\ UNCHANGED crashed
            ELSE /\ wpc' = "dead"
                 /\ crashed' = crashed \cup {e.ev}
                 /\ UNCHANGED <<batch, rag_batch, elapsed, batchAge, sql, vec,
                                flushed, lastFlush>>
  /\ UNCHANGED <<running, nCalls, accepted, rd, shutdown, phase, otherVars>>

\* database.py:40-75  one iteration in which queue.get(timeout=1.0) found the
\* queue empty for one second and raised queue.Empty.
WorkerGetTimeout(sqlOuts, vecOuts) ==
  /\ Alive /\ wpc = "run" /\ running
  /\ queue = <<>>
  /\ FlushCheck(batch, rag_batch, Min(elapsed + 1, MaxElapsed),
                IF batch # <<>> THEN Min(batchAge + 1, MaxElapsed) ELSE 0,
                sqlOuts, vecOuts)
  /\ UNCHANGED <<queue, running, nCalls, accepted, crashed, rd, shutdown,
                 phase, otherVars>>

WorkerIter(sqlOuts, vecOuts) ==
  WorkerGetEvent(sqlOuts, vecOuts) \/ WorkerGetTimeout(sqlOuts, vecOuts)

\* database.py:82-83  get_recent_events(T, L) opens its session.
ReadBegin ==
  /\ Alive /\ rd.pc # "open"
  /\ \E T \in {"process", "network_flow"}, L \in 0..MaxLimit :
       rd' = [pc |-> "open", type |-> T, limit |-> L, start |-> Len(sql),
              seen |-> 0, rows |-> <<>>, failed |-> FALSE]
  /\ UNCHANGED <<writerVars, shutdown, phase, otherVars>>

\* database.py:84-103  the SELECT runs and the call returns: the rows it
\* selected, or [] when anything raised.
ReadSelect ==
  /\ Alive /\ rd.pc = "open"
  /\ \/ \E r \in SelectRecent(sql, rd.type, rd.limit) :
          rd' = [rd EXCEPT !.pc = "done", !.rows = r, !.seen = Len(sql)]
     \/ rd' = [rd EXCEPT !.pc = "done", !.rows = <<>>, !.failed = TRUE,
                         !.seen = Len(sql)]
  /\ UNCHANGED <<writerVars, shutdown, phase, otherVars>>

\* The list get_recent_events returned (database.py:93-100).
ReadResult == [i \in 1..Len(rd.rows) |-> RowToDict(sql[rd.rows[i]])]

\* server.py:38-47  the lifespan's exit: the monitor tasks are cancelled and
\* awaited, then _db_worker.stop() is called.  DatabaseWorker has no stop, so
\* the call raises AttributeError out of the lifespan.
StopRaises == "stop" \notin DatabaseWorkerAttrs

LifespanExit ==
  /\ Alive /\ shutdown = "none"
  /\ shutdown' = IF StopRaises THEN "raised" ELSE "returned"
  /\ UNCHANGED <<writerVars, rd, phase, otherVars>>

\* The server process ends after its lifespan; the worker is a daemon thread
\* (database.py:27) and ends with it, wherever it stands.
ProcessExit ==
  /\ Alive /\ shutdown # "none"
  /\ phase' = "exited"
  /\ UNCHANGED <<writerVars, rd, shutdown, otherVars>>

\* ------------------------------------------------------- monitor actions
\* asyncio runs one task at a time: the lifespan and the other tasks run only
\* while no task is between two of its awaits.
EventLoopIdle == \A m \in Monitors : Suspended(task[m])

\* The write_event calls a task that is writing its list has yet to make.
Reserved ==
  Len(snap["process"].pending) + Len(snap["service"].pending)
    + Len(snap["hardware"].pending)

coreVars ==
  <<running, wpc, batch, rag_batch, elapsed, batchAge, crashed, sql, vec,
    flushed, lastFlush, rd>>

\* The first step of a task.  A polling loop enters its try and awaits
\* to_thread(collect) (background.py:27, 61, 136); the network loop starts
\* the sniffer thread and sleeps (background.py:105-112).
TaskStart(m) ==
  /\ Alive /\ ~cancelled
  /\ EventLoopIdle
  /\ task[m] = "pending"
  /\ IF m \in Polling
       THEN /\ task' = [task EXCEPT ![m] = "collect"]
            /\ job' = [job EXCEPT ![m] = "running"]
            /\ UNCHANGED <<timer, sniffer>>
       ELSE /\ task' = [task EXCEPT ![m] = "sleep"]
            /\ timer' = [timer EXCEPT ![m] = SleepSeconds(m)]
            /\ sniffer' = "opening"
            /\ UNCHANGED job
  /\ UNCHANGED <<queue, nCalls, accepted, coreVars, restVars, shutdown, phase,
                 cancelled, lost, snap, sockErrors>>

\* The collect call of monitor m ends in its thread.  A task still awaiting
\* it resumes with the list: a list that is not empty it begins to write
\* (background.py:30-31); after an empty one it sleeps (line 35); if the call
\* raised, it prints and sleeps in the handler (background.py:41-45).
\* After cancel() the await has been cancelled already, and what the thread
\* returns reaches nobody.
CollectReturns(m) ==
  /\ Alive
  /\ EventLoopIdle
  /\ job[m] = "running"
  /\ \E o \in CollectOutcomes(m) :
       /\ job' = [job EXCEPT ![m] = "none"]
       /\ IF task[m] = "collect" /\ ~cancelled
            THEN /\ nCalls + Reserved + Len(o.events) <= MaxMonitorWrites
                 /\ task' = [task EXCEPT ![m] =
                               IF ~o.ok THEN "errsleep"
                               ELSE IF o.events # <<>> THEN "writing"
                               ELSE "sleep"]
                 /\ timer' = [timer EXCEPT ![m] =
                                IF ~o.ok THEN ErrorSleepSeconds(m)
                                ELSE IF o.events # <<>> THEN 0
                                ELSE SleepSeconds(m)]
                 /\ snap' = [snap EXCEPT ![m] =
                               [pending |-> o.events, got |-> Len(o.events),
                                put |-> 0]]
                 /\ UNCHANGED lost
            ELSE /\ lost' = IF o.events # <<>> THEN lost \cup {m} ELSE lost
                 /\ UNCHANGED <<task, timer, snap>>
  /\ UNCHANGED <<queue, nCalls, accepted, coreVars, restVars, shutdown, phase,
                 cancelled, sniffer, sockErrors>>

\* background.py:31-32, 65-66, 140-141  one turn of `for ev in events:
\* write_event(ev)`.  After the last event the task reaches its sleep
\* (background.py:35, 69, 143).  The writer's thread and the sniffer's run
\* meanwhile; the event loop runs nothing else.
WriteNext(m) ==
  /\ Alive
  /\ task[m] = "writing"
  /\ snap[m].pending # <<>>
  /\ queue' = WriteAll(queue, <<Head(snap[m].pending)>>, nCalls)
  /\ nCalls' = nCalls + 1
  /\ accepted' = accepted \cup {nCalls + 1}
  /\ snap' = [snap EXCEPT ![m] =
                [pending |-> Tail(snap[m].pending), got |-> snap[m].got,
                 put |-> snap[m].put + Len(queue') - Len(queue)]]
  /\ IF Tail(snap[m].pending) = <<>>
       THEN /\ task' = [task EXCEPT ![m] = "sleep"]
            /\ timer' = [timer EXCEPT ![m] = SleepSeconds(m)]
       ELSE UNCHANGED <<task, timer>>
  /\ UNCHANGED <<coreVars, restVars, shutdown, phase, job, cancelled, lost,
                 sniffer, sockErrors>>

\* asyncio.sleep returns.  A polling loop goes round and collects again; the
\* network loop sleeps again (background.py:111-112).
Wake(m) ==
  /\ Alive /\ ~cancelled
  /\ EventLoopIdle
  /\ task[m] \in {"sleep", "errsleep"}
  /\ timer[m] = 0
  /\ IF m \in Polling
       THEN /\ task' = [task EXCEPT ![m] = "collect"]
            /\ job' = [job EXCEPT ![m] = "running"]
            /\ snap' = [snap EXCEPT ![m] = NoSnapshot]
            /\ UNCHANGED timer
       ELSE /\ timer' = [timer EXCEPT ![m] = SleepSeconds(m)]
            /\ UNCHANGED <<task, job, snap>>
  /\ UNCHANGED <<queue, nCalls, accepted, coreVars, restVars, shutdown, phase,
                 cancelled, lost, sniffer, sockErrors>>

\* ClockStep seconds pass for every sleeping task.
MonTick ==
  /\ Alive
  /\ \E m \in Monitors : timer[m] > 0
  /\ timer' = [m \in Monitors |->
                IF timer[m] > ClockStep THEN timer[m] - ClockStep ELSE 0]
  /\ UNCHANGED <<queue, nCalls, accepted, coreVars, restVars, shutdown, phase,
                 task, job, cancelled, lost, snap, sniffer, sockErrors>>

\* server.py:40-41  for t in tasks: t.cancel()
LifespanCancel ==
  /\ Alive /\ ~cancelled
  /\ EventLoopIdle
  /\ cancelled' = TRUE
  /\ UNCHANGED <<queue, nCalls, accepted, coreVars, restVars, shutdown, phase,
                 task, timer, job, lost, snap, sniffer, sockErrors>>

\* CancelledError reaches the task at the await it stands at.  In the try it
\* is caught and the loop returns (background.py:37-39, 71-73, 114-118,
\* 145-147); in the handler's sleep, or before the first step, it ends the
\* task uncaught.  Either way the task is finished.
TaskCancelled(m) ==
  /\ Alive /\ cancelled
  /\ EventLoopIdle
  /\ task[m] # "done"
  /\ task' = [task EXCEPT ![m] = "done"]
  /\ timer' = [timer EXCEPT ![m] = 0]
  /\ UNCHANGED <<queue, nCalls, accepted, coreVars, restVars, shutdown, phase,
                 job, cancelled, lost, snap, sniffer, sockErrors>>

\* server.py:42  asyncio.gather(*tasks, return_exceptions=True) returns when
\* every task has finished.
GatherReadyAny == \E m \in Monitors : task[m] = "done"
GatherReady == \A m \in Monitors : task[m] = "done"

\* server.py:42-47  gather returns and the rest of the finally block runs.
LifespanGather ==
  /\ cancelled
  /\ GatherReady
  /\ LifespanExit

\* background.py:93-98 with collectors/linux.py:123-128: the sniffer thread
\* calls collect_network_events, which opens the socket.  When that fails the
\* generator prints and returns; the for loop ends without an exception, and
\* `while True` calls collect_network_events again at once.
SnifferOpen ==
  /\ Alive
  /\ sniffer = "opening"
  /\ \E opened \in BOOLEAN :
       IF opened
         THEN sniffer' = "streaming" /\ UNCHANGED sockErrors
         ELSE /\ sockErrors < MaxSockErrors
              /\ sockErrors' = sockErrors + 1
              /\ UNCHANGED sniffer
  /\ UNCHANGED <<queue, nCalls, accepted, coreVars, restVars, shutdown, phase,
                 task, timer, job, cancelled, lost, snap>>

\* collectors/linux.py:130-148 and background.py:96-98: a packet arrives and
\* its event is written.
SnifferPacket ==
  /\ Alive
  /\ sniffer = "streaming"
  /\ nCalls + Reserved < MaxMonitorWrites
  /\ queue' = WriteAll(queue, <<NetA>>, nCalls)
  /\ nCalls' = nCalls + 1
  /\ accepted' = accepted \cup {nCalls + 1}
  /\ UNCHANGED <<coreVars, restVars, shutdown, phase, monVars>>

\* The supervisor: the four monitor tasks and the lifespan's exit.
MonitorNext ==
  \/ \E m \in Monitors : TaskStart(m)
  \/ \E m \in Polling : CollectReturns(m)
  \/ \E m \in Polling : WriteNext(m)
  \/ \E m \in Monitors : Wake(m)
  \/ MonTick
  \/ LifespanCancel
  \/ \E m \in Monitors : TaskCancelled(m)
  \/ LifespanGather
  \/ ProcessExit

MonitorSpec == Init /\ [][MonitorNext]_vars

\* The supervisor together with the sniffer thread.
SnifferNext ==
  \/ MonitorNext
  \/ SnifferOpen
  \/ SnifferPacket

SnifferSpec == Init /\ [][SnifferNext]_vars

\* The supervisor with its scheduling: the event loop runs every task that
\* has a CancelledError to receive.
MonitorLiveSpec ==
  /\ Init
  /\ [][MonitorNext]_vars
  /\ \A m \in Monitors : WF_vars(TaskCancelled(m))

\* ------------------------------------------------------- analysis actions
\* A caller hands a process map to analyze_process (analysis.py:60).
AnalyzeProcess ==
  /\ analysed = "none"
  /\ \E p \in ProcessMaps \cup {Miner, Browser} :
       /\ analysed' = "process"
       /\ subject' = p
       /\ verdict' = analyze_process(p)
  /\ UNCHANGED <<writerVars, rd, shutdown, phase, monVars, toolVars, winVars,
                 facVars>>

\* A caller hands a flow to analyze_network_flow (analysis.py:161).
AnalyzeNetworkFlow ==
  /\ analysed = "none"
  /\ \E f \in NetworkFlows \cup {IcmpTunnel} :
       /\ analysed' = "network_flow"
       /\ subject' = f
       /\ verdict' = analyze_network_flow(f)
  /\ UNCHANGED <<writerVars, rd, shutdown, phase, monVars, toolVars, winVars,
                 facVars>>

AnalysisNext ==
  \/ AnalyzeProcess
  \/ AnalyzeNetworkFlow

AnalysisSpec == Init /\ [][AnalysisNext]_vars

\* A caller hands an event to analyze_event (analysis.py:369).
AnalyzeEvent ==
  /\ analysed = "none"
  /\ \E e \in DispatchEvents :
       /\ analysed' = "event"
       /\ subject' = e
       /\ verdict' = analyze_event(e)
  /\ UNCHANGED <<writerVars, rd, shutdown, phase, monVars, toolVars, winVars,
                 facVars>>

DispatchSpec == Init /\ [][AnalyzeEvent]_vars

\* ------------------------------------------------------------- RPC surface
\* database.py:77-103  the lists one get_recent_events(T, L) call can return:
\* the rows selected as dicts, or [] when anything raised.
EventsRead(T, L) ==
  {[i \in 1..Len(r) |-> RowToDict(sql[r[i]])] : r \in SelectRecent(sql, T, L)}
    \cup {<<>>}

\* [analyzer(e) for e in events] followed by the sort.
Analysed(T, events) ==
  SortByRisk([i \in 1..Len(events) |-> AnalyzerOf(T, events[i])])

\* server.py:203-214  each entry also gets the description the language
\* model wrote for it.
Described(events) ==
  [i \in 1..Len(events) |->
     DictMerge(analyze_process(events[i]), [rag_description |-> "description"])]

OneList(T, analysis, n) == T :> [analysis |-> analysis, read |-> n]

\* One request served: the handler's return value is all it leaves behind.
ToolReturns(out) ==
  /\ Alive
  /\ toolCalls < MaxToolCalls
  /\ toolCalls' = toolCalls + 1
  /\ toolOut' = out
  /\ UNCHANGED <<writerVars, rd, shutdown, phase, monVars, anVars, winVars, facVars,
                 toolCollects>>

\* server.py:62-66, 114-120  get_config and get_testing_ping
StaticTool ==
  \E name \in {"get_config", "get_testing_ping"} :
    ToolReturns([tool |-> name, lists |-> NoKey, totals |-> NoKey,
                 events |-> <<>>, hits |-> 0])

\* server.py:68-95, 123-145  the resources and tools that return the stored
\* events as read.
ReadTool ==
  \E call \in {<<"get_processes", "process">>,
               <<"get_flows", "network_flow">>,
               <<"get_service_events", "service_event">>,
               <<"get_running_processes", "process">>,
               <<"get_running_services", "service_event">>} :
    \E L \in IF call[1] = "get_service_events" THEN {1, DEFAULT_LIMIT}
                                                 ELSE {DEFAULT_LIMIT} :
      \E events \in EventsRead(call[2], L) :
        ToolReturns([tool |-> call[1], lists |-> NoKey, totals |-> NoKey,
                     events |-> events, hits |-> 0])

\* server.py:97-107, 171-185  rag_query and search_findings: answer_with_rag
\* retrieves at most five documents of the vector index and asks the
\* language model.
RagTool ==
  \E name \in {"rag_query", "search_findings"} :
    ToolReturns([tool |-> name, lists |-> NoKey, totals |-> NoKey,
                 events |-> <<>>, hits |-> Min(Cardinality(vec), RAG_LIMIT)])

\* server.py:148-168  get_network_flows(limit)
get_network_flows ==
  \E limit \in {1, NETWORK_FLOWS_LIMIT} :
    \E flows \in EventsRead("network_flow", limit) :
      LET processed == Analysed("network_flow", flows)
      IN ToolReturns([tool |-> "get_network_flows",
                      lists |-> OneList("network_flow",
                                        Limit(processed, limit), Len(flows)),
                      totals |-> "network_flow" :> Len(processed),
                      events |-> <<>>, hits |-> 0])

\* server.py:188-220
analyze_processes ==
  \E events \in EventsRead("process", DEFAULT_LIMIT) :
    ToolReturns([tool |-> "analyze_processes",
                 lists |-> OneList("process", SortByRisk(Described(events)),
                                   Len(events)),
                 totals |-> "process" :> Len(events),
                 events |-> <<>>, hits |-> 0])

\* server.py:223-242
analyze_network ==
  \E flows \in EventsRead("network_flow", DEFAULT_LIMIT) :
    LET processed == Analysed("network_flow", flows)
    IN ToolReturns([tool |-> "analyze_network",
                    lists |-> OneList("network_flow", processed, Len(flows)),
                    totals |-> "network_flow" :> Len(processed),
                    events |-> <<>>, hits |-> 0])

\* server.py:245-263
analyze_services ==
  \E events \in EventsRead("service_event", DEFAULT_LIMIT) :
    LET processed == IF events = <<>> THEN <<>>
                     ELSE Analysed("service_event", events)
    IN ToolReturns([tool |-> "analyze_services",
                    lists |-> OneList("service_event", processed, Len(events)),
                    totals |-> "service_event" :> Len(processed),
                    events |-> <<>>, hits |-> 0])

\* server.py:266-286  analyze_hardware_spikes(limit)
analyze_hardware_spikes ==
  \E limit \in {1, HARDWARE_SPIKES_LIMIT} :
    \E events \in EventsRead("hardware_spike", limit) :
      LET processed == IF events = <<>> THEN <<>>
                       ELSE Analysed("hardware_spike", events)
      IN ToolReturns([tool |-> "analyze_hardware_spikes",
                      lists |-> OneList("hardware_spike", processed,
                                        Len(events)),
                      totals |-> "hardware_spike" :> Len(events),
                      events |-> <<>>, hits |-> 0])

\* server.py:289-323  four reads, four lists, no total
analyze_all ==
  \E pevents \in EventsRead("process", DEFAULT_LIMIT),
     nevents \in EventsRead("network_flow", DEFAULT_LIMIT),
     sevents \in EventsRead("service_event", DEFAULT_LIMIT),
     hevents \in EventsRead("hardware_spike", DEFAULT_LIMIT) :
    ToolReturns([tool |-> "analyze_all",
                 lists |->
                   OneList("process", Analysed("process", pevents),
                           Len(pevents))
                   @@ OneList("network_flow",
                              Analysed("network_flow", nevents), Len(nevents))
                   @@ OneList("service_event",
                              Analysed("service_event", sevents), Len(sevents))
                   @@ OneList("hardware_spike",
                              Analysed("hardware_spike", hevents),
                              Len(hevents)),
                 totals |-> NoKey, events |-> <<>>, hits |-> 0])

\* mcp_server/server.py:43-47  get_running_processes of the second server
\* module: the handler calls collector.collect_process_events() itself and
\* returns what the collector gives.
mcp_get_running_processes ==
  /\ Alive
  /\ toolCalls < MaxToolCalls
  /\ toolCalls' = toolCalls + 1
  /\ toolCollects' = toolCollects + 1
  /\ \E o \in CollectOutcomes("process") :
       toolOut' = [tool |-> "mcp_get_running_processes", lists |-> NoKey,
                   totals |-> NoKey, events |-> o.events, hits |-> 0]
  /\ UNCHANGED <<writerVars, rd, shutdown, phase, monVars, anVars, winVars,
                 facVars>>

\* The writer with the RPC surface of server.py.
ServerTool ==
  \/ StaticTool
  \/ ReadTool
  \/ RagTool
  \/ get_network_flows
  \/ analyze_processes
  \/ analyze_network
  \/ analyze_services
  \/ analyze_hardware_spikes
  \/ analyze_all

ToolNext ==
  \/ Produce(ToolPool, ToolWrites)
  \/ Tick
  \/ WorkerIter({TRUE}, {TRUE})
  \/ ServerTool
  \/ mcp_get_running_processes

ToolSpec == Init /\ [][ToolNext]_vars

\* ------------------------------------------------ Windows service events
\* The system appends a record to the 'System' event log.
LogAppend ==
  /\ evlog < MaxRecords
  /\ evlog' = evlog + 1
  /\ UNCHANGED <<writerVars, rd, shutdown, phase, monVars, anVars, toolVars,
                 facVars, last_service_record_number, returned, lastBatch,
                 winCall>>

\* windows.py:67-106  collect_service_events(limit) on the one collector.
\* opened is FALSE when OpenEventLog or ReadEventLog raises: the except
\* prints and the empty list is returned.
collect_service_events ==
  /\ \E limit \in {1, 2, DEFAULT_LIMIT}, opened \in BOOLEAN, k \in 0..evlog :
       LET raw == Limit(RawEvents(evlog, k), limit)
       IN \E failAt \in 1..(Len(raw) + 1) :
            LET r == IF opened
                       THEN ServiceLoop(raw, 1, last_service_record_number,
                                        <<>>, failAt)
                       ELSE [wm |-> last_service_record_number,
                             events |-> <<>>]
            IN /\ last_service_record_number' = r.wm
               /\ lastBatch' = r.events
               /\ winCall' = [done |-> TRUE, raw |-> raw,
                              wm0 |-> last_service_record_number,
                              clean |-> opened /\ failAt > Len(raw)]
               /\ returned' = returned \cup {lastBatch[i] : i \in 1..Len(lastBatch)}
  /\ UNCHANGED <<writerVars, rd, shutdown, phase, monVars, anVars, toolVars,
                 facVars, evlog>>

WinNext == LogAppend \/ collect_service_events

WinSpec == Init /\ [][WinNext]_vars

\* ------------------------------------------------------ collector actions
\* collectors/factory.py:18-40  get_collector() on a host of one OS family.
get_collector ==
  /\ collector.state = "none"
  /\ \E os \in OsNames :
       /\ os_name' = os
       /\ collector' = GetCollectorResult(os)
  /\ UNCHANGED <<writerVars, rd, shutdown, phase, monVars, anVars, toolVars,
                 winVars, svcCall>>

\* linux.py:67-107 and mac.py:65-106  collect_service_events(limit) on the
\* collector made, with `listed` services listed by the OS.
collect_service_snapshot ==
  /\ collector.state = "instance"
  /\ \E limit \in {1, 2, SERVICE_LIMIT}, listed \in 0..MaxListed,
        ok \in BOOLEAN, firstBad \in BOOLEAN :
       svcCall' =
         [done |-> TRUE, limit |-> limit, listed |-> listed,
          events |->
            IF collector.cls = "LinuxCollector"
              THEN LinuxServiceEvents(listed, limit, ok)
              ELSE MacServiceEvents(listed, limit, firstBad, ok)]
  /\ UNCHANGED <<writerVars, rd, shutdown, phase, monVars, anVars, toolVars,
                 winVars, os_name, collector>>

FactoryNext == get_collector \/ collect_service_snapshot

FactorySpec == Init /\ [][FactoryNext]_vars

\* The writer alone: producers, the clock and the worker thread, with both
\* writes free to fail.
Next ==
  \/ Produce(Pool, MaxCalls)
  \/ Tick
  \/ WorkerIter(BOOLEAN, BOOLEAN)

Spec == Init /\ [][Next]_vars

\* The writer and a reader of the table.
ReadPool == {ProcA, ProcB, NetA}

ReadNext ==
  \/ Produce(ReadPool, MaxCalls)
  \/ Tick
  \/ WorkerIter(BOOLEAN, {TRUE})
  \/ ReadBegin
  \/ ReadSelect

ReadSpec == Init /\ [][ReadNext]_vars

\* A burst: up to BulkCalls equal events, enough to fill a batch.
BulkNext ==
  \/ Produce(BulkPool, BulkCalls)
  \/ Tick
  \/ WorkerIter({TRUE}, {TRUE})

BulkSpec == Init /\ [][BulkNext]_vars

\* The writer and the shutdown of the server.
ShutdownPool == {ProcA, NetA}

ShutdownNext ==
  \/ Produce(ShutdownPool, MaxCalls)
  \/ Tick
  \/ WorkerIter({TRUE}, {TRUE})
  \/ LifespanExit
  \/ ProcessExit

ShutdownSpec == Init /\ [][ShutdownNext]_vars

\* The writer of Spec with its scheduling: the worker is a running thread, so
\* an iteration that can be taken is taken, and time passes.
LiveSpec ==
  /\ Init
  /\ [][Next]_vars
  /\ WF_vars(WorkerIter(BOOLEAN, BOOLEAN))
  /\ WF_vars(Tick)

\* ----------------------------------------------------------------- claims
Evs(s) == {s[i].ev : i \in 1..Len(s)}

CountInSql(n) == Cardinality({i \in 1..Len(sql) : sql[i].ev = n})

NoSqlFailure == \A n \in DOMAIN flushed : flushed[n].sqlOk

\* No transaction has failed and the worker thread is running.
Healthy == NoSqlFailure /\ wpc = "run"

\* C1: when no SQL transaction fails and the worker keeps running, every event
\* put on the queue is eventually in unified_events exactly once, and no event
\* is ever there twice.
C1_EveryEventStoredOnce ==
  /\ [](\A n \in accepted : CountInSql(n) <= 1)
  /\ ([]Healthy =>
        \A n \in 1..MaxCalls : (n \in accepted) ~> (CountInSql(n) = 1))

\* C1 witness: three events were put, and all three are stored once each
\* by a healthy writer.
C1_Witness ==
  /\ Healthy
  /\ Cardinality(accepted) >= 3
  /\ \A n \in accepted : CountInSql(n) = 1

\* C2: when the lifespan's exit has run, it has not raised and every event put
\* on the queue before it is in unified_events.
C2_ShutdownDrains ==
  shutdown # "none" =>
    /\ shutdown = "returned"
    /\ \A n \in accepted : CountInSql(n) = 1

\* What one worker iteration flushes, read off the step: the flush happened
\* when more events are flushed after it than before; elapsed and the age of
\* the oldest row are those the flush condition saw (a get that timed out
\* waited one more second).
FlushStep == DOMAIN flushed' # DOMAIN flushed
FlushedSize == Cardinality(DOMAIN flushed') - Cardinality(DOMAIN flushed)
ElapsedAtCheck ==
  IF queue = <<>> THEN Min(elapsed + 1, MaxElapsed) ELSE elapsed
OldestAgeAtCheck ==
  IF batch = <<>> THEN 0
  ELSE IF queue = <<>> THEN Min(batchAge + 1, MaxElapsed) ELSE batchAge

\* C3 as claimed: a batch is flushed only when it holds 50 events or its
\* oldest event has been in it for more than 3 s.
C3_FlushOnlyFullOrOld ==
  [][FlushStep =>
       FlushedSize >= FLUSH_SIZE \/ OldestAgeAtCheck > FLUSH_INTERVAL]_vars

\* C3 as amended: a batch is flushed only when it holds 50 events or more than
\* 3 s have passed since the previous flush (since the loop started, for the
\* first one), whatever the age of its events.
C3_FlushOnlyFullOrIntervalPassed ==
  [][FlushStep =>
       FlushedSize >= FLUSH_SIZE \/ ElapsedAtCheck > FLUSH_INTERVAL]_vars

\* C3 witness: a batch was flushed for its size, 50 rows at once.
C3_Witness == lastFlush = "full" /\ Len(sql) >= FLUSH_SIZE

C5_FailureConfinedToBatch ==
  /\ \A n \in DOMAIN flushed :
       /\ CountInSql(n) = (IF flushed[n].sqlOk THEN 1 ELSE 0)
       /\ n \notin Evs(queue) \cup Evs(rag_batch)
  /\ wpc = "dead" => crashed # {}

\* C5 witness: a batch whose SQL transaction failed, then a batch stored in
\* SQL although its vector insert failed, and the worker still runs.
C5_Witness ==
  /\ wpc = "run"
  /\ \E m, n \in DOMAIN flushed :
       /\ m < n
       /\ ~flushed[m].sqlOk
       /\ flushed[n].sqlOk /\ ~flushed[n].vecOk
       /\ CountInSql(n) = 1

\* The rows a finished get_recent_events call selected.
ReadDone == rd.pc = "done"
ReadRows == {rd.rows[i] : i \in 1..Len(rd.rows)}

\* C6: get_recent_events(T, L) returns at most L events, each from a row
\* stored with event_type T, no row twice, newest stored timestamp first; a
\* call whose read raised returns the empty list.
C6_RecentEventsOfTypeNewestFirst ==
  ReadDone =>
    /\ Len(ReadResult) <= rd.limit
    /\ \A i \in 1..Len(rd.rows) : sql[rd.rows[i]].event_type = rd.type
    /\ \A i, j \in 1..Len(rd.rows) :
         i < j => /\ rd.rows[i] # rd.rows[j]
                  /\ sql[rd.rows[i]].timestamp >= sql[rd.rows[j]].timestamp
    /\ rd.failed => ReadResult = <<>>

\* C6 witness: three process rows of two timestamps are stored and a call
\* with limit 2 returned two of them, the newer first.
C6_Witness ==
  /\ ReadDone /\ ~rd.failed
  /\ rd.limit = 2 /\ Len(ReadResult) = 2
  /\ Cardinality(Matching(sql, rd.type)) = 3
  /\ sql[rd.rows[1]].timestamp > sql[rd.rows[2]].timestamp

\* C7: a get_recent_events(T, L) call that did not raise returns every row of
\* type T committed before it started, unless it returned L rows that are all
\* at least as new; and every row it returns belongs to a transaction that
\* committed: it never returns a row of a batch whose transaction failed.
C7_ReadSeesCommittedBatches ==
  (ReadDone /\ ~rd.failed) =>
    /\ \A i \in 1..rd.start :
         sql[i].event_type = rd.type =>
           \/ i \in ReadRows
           \/ /\ Len(rd.rows) = rd.limit
              /\ \A j \in ReadRows : sql[j].timestamp >= sql[i].timestamp
    /\ \A j \in ReadRows :
         /\ sql[j].ev \in DOMAIN flushed
         /\ flushed[sql[j].ev].sqlOk
    /\ \A n \in DOMAIN flushed :
         flushed[n].sqlOk => CountInSql(n) = 1

\* C7 witness: a call started after one batch had committed, another batch
\* committed and a third failed while it ran, and it returned rows of both
\* committed batches.
C7_Witness ==
  /\ ReadDone /\ ~rd.failed
  /\ rd.start > 0 /\ rd.seen > rd.start
  /\ \E n \in DOMAIN flushed : ~flushed[n].sqlOk
  /\ \E i, j \in ReadRows : i <= rd.start /\ j > rd.start

\* C8: every map get_recent_events returns holds the ISO form of the row's
\* timestamp under "timestamp", every item of the row's details and every
\* item of its metadata.
C8_RoundTripPreservesFields ==
  ReadDone =>
    \A i \in 1..Len(rd.rows) :
      LET row == sql[rd.rows[i]]
          d == ReadResult[i]
      IN /\ d["timestamp"] = IsoFormat(row.timestamp)
         /\ \A k \in DOMAIN row.details : d[k] = row.details[k]
         /\ \A k \in DOMAIN row.metadata_fields : d[k] = row.metadata_fields[k]

\* C9: no row with an event_type outside the closed set is ever stored, and
\* the worker thread is not ended by what a producer passed.
C9_OnlyKnownTypesStored ==
  /\ \A i \in 1..Len(sql) : sql[i].event_type \in EventType
  /\ wpc = "run"

C11_ErrorSleepsIntervalThenRetries ==
  /\ [](~cancelled => \A m \in Monitors : task[m] # "done")
  /\ [][\A m \in Polling :
          /\ (task[m] = "collect" /\ task'[m] = "errsleep") =>
                /\ timer'[m] = (CASE m = "process" -> 10
                                  [] m = "service" -> 30
                                  [] OTHER -> 15)
                /\ \A k \in Monitors \ {m} :
                     task'[k] = task[k] /\ timer'[k] = timer[k]
                /\ shutdown' = shutdown /\ cancelled' = cancelled
          /\ (task[m] = "errsleep" /\ task'[m] # "errsleep") =>
                \/ task'[m] = "collect" /\ timer[m] = 0 /\ job'[m] = "running"
                \/ task'[m] = "done" /\ cancelled]_vars

\* C11 witness: the service monitor's collect raised and its 30 s have run
\* out, so it is about to retry, while the process monitor wrote its event
\* and sleeps; nothing was cancelled.
C11_Witness ==
  /\ ~cancelled
  /\ task["service"] = "errsleep" /\ timer["service"] = 0
  /\ task["process"] = "sleep" /\ timer["process"] > 0
  /\ \E i \in 1..Len(queue) : queue[i].type = "process"

\* C12: once the lifespan has cancelled the tasks, all four finish, whatever
\* each was doing; and the rest of the shutdown has not run while a task is
\* unfinished.
C12_CancelledTasksAllFinish ==
  /\ cancelled ~> (\A m \in Monitors : task[m] = "done")
  /\ [](shutdown # "none" => \A m \in Monitors : task[m] = "done")

\* C12 witness: the tasks were cancelled while the process monitor's collect
\* call was running in its thread (it still is); all four tasks have
\* finished and the shutdown went on.
C12_Witness ==
  /\ cancelled /\ shutdown # "none"
  /\ \A m \in Monitors : task[m] = "done"
  /\ job["process"] = "running"

\* C13: the list of a collect call that was running when its task was
\* cancelled is written to the queue, never discarded.
C13_InFlightCollectIsWritten == lost = {}

\* C14: after the socket failed to open, the sniffer does not open it again:
\* the failure is printed at most once.
C14_SocketFailureDisablesCapture == sockErrors <= 1

\* ------------------------------------------------------------------- C15
C15_W(b) == IF b THEN 1 ELSE 0
C15_Text(p, k) == IF k \in DOMAIN p /\ p[k] # None THEN p[k][1] ELSE <<>>
C15_Number(p, k) == IF k \in DOMAIN p THEN p[k] ELSE 0
C15_Counted(p) ==
  LET conns == IF "connections" \in DOMAIN p THEN p.connections ELSE <<>>
  IN {i \in 1..Len(conns) :
        /\ conns[i].remote_address \notin {None, Some(<<>>)}
        /\ Lower(C15_Text(conns[i], "status"))
             \notin {<<"e", "s", "t", "a", "b", "l", "i", "s", "h", "e", "d">>, <<"l", "i", "s", "t", "e", "n">>, <<"n", "o", "n", "e">>, <<>>}}
C15_RuleSum(p) ==
  LET exe == C15_Text(p, "exe")
      user == Lower(C15_Text(p, "username"))
      cpu == C15_Number(p, "cpu_percent")
      mem == C15_Number(p, "memory_percent")
  IN 2 * C15_W(exe = <<>>)
     + 2 * C15_W(\E part \in {<<"t", "m", "p">>, <<"p", "r", "i", "v", "a", "t", "e">>, <<"c", "a", "c", "h", "e">>, <<"s", "h", "m">>, <<"v", "a", "r", "/", "t", "m", "p">>,
                              <<"a", "p", "p", "d", "a", "t", "a", "\\", "l", "o", "c", "a", "l", "\\", "t", "e", "m", "p">>} :
                   Contains(Lower(exe), part))
     + C15_W(Len(exe) > 260)
     + (IF cpu > 50 THEN 2 ELSE C15_W(cpu > 20))
     + (IF mem > 20 THEN 2 ELSE C15_W(mem > 10))
     + 2 * C15_W(user \in {<<"r", "o", "o", "t">>, <<"s", "y", "s", "t", "e", "m">>, <<"n", "t", " ", "a", "u", "t", "h", "o", "r", "i", "t", "y", "\\", "s", "y", "s", "t", "e", "m">>}
                 /\ (cpu > 10 \/ mem > 10))
     + Cardinality(C15_Counted(p))

C16_Has(reason) ==
  \E i \in 1..Len(verdict.reasons) : verdict.reasons[i] = reason

\* C16 as stated: the miner example (exe /tmp/x, cpu 85, memory 5, user
\* root, no connections) scores 8.
C16_MinerScoresEight ==
  (analysed = "process" /\ subject = Miner) =>
    /\ verdict.risk_score = 8
    /\ C16_Has("suspicious_dir") /\ C16_Has("high_cpu")

\* C16 as amended: the miner example scores 6 (tmp path 2, cpu above 50 2,
\* root with cpu above 10 2; the no-exe rule does not match), and its
\* reasons include the suspicious-directory and the high-CPU reason.
C16_MinerScoresSix ==
  (analysed = "process" /\ subject = Miner) =>
    /\ verdict.risk_score = 6
    /\ C16_Has("suspicious_dir") /\ C16_Has("high_cpu")

\* The miner example has been scored.
C16_Witness == analysed = "process" /\ subject = Miner /\ verdict.exe = <<"/", "t", "m", "p", "/", "x">>

\* ------------------------------------------------------------------- C17
C17_First(f, k1, k2, missing) ==
  IF k1 \in DOMAIN f THEN f[k1] ELSE IF k2 \in DOMAIN f THEN f[k2] ELSE missing
C17_External(f) ==
  LET dst == C17_First(f, "dst", "dst_ip", None)
  IN /\ dst \notin {None, Some(<<>>)}
     /\ \A prefix \in {<<"1", "0", ".">>, <<"1", "9", "2", ".", "1", "6", "8", ".">>, <<"1", "2", "7", ".">>, <<"f", "e", "8", "0", ":">>} :
          ~StartsWith(dst[1], prefix)
     /\ dst[1] # <<"2", "5", "5", ".", "2", "5", "5", ".", "2", "5", "5", ".", "2", "5", "5">>
C17_Large(f) == C17_First(f, "length", "packet_size", 0) > 2000
C17_BadProto(f) ==
  LET proto == C17_First(f, "proto", "protocol", None)
  IN proto # None /\ Lower(proto[1]) \in {<<"i", "c", "m", "p">>, <<"r", "a", "w">>, <<"g", "r", "e">>}

C18_AnalyzeTools ==
  {"analyze_processes", "analyze_network", "analyze_services",
   "analyze_hardware_spikes", "analyze_all"}
C18_NonIncreasing(analysis) ==
  \A i, j \in 1..Len(analysis) :
    i < j => analysis[i].risk_score >= analysis[j].risk_score

C19_ToolsOnlyReadThroughWriter ==
  [][toolCalls' # toolCalls =>
       /\ UNCHANGED <<queue, batch, rag_batch, sql, vec,
                      last_service_record_number>>
       /\ toolCollects' = toolCollects]_vars

\* ------------------------------------------------------------------- C20
C20_Newer ==
  /\ \A i \in 1..Len(lastBatch) : \A q \in returned : lastBatch[i] > q
  /\ \A i, j \in 1..Len(lastBatch) : i # j => lastBatch[i] # lastBatch[j]

\* C20: over the calls of collect_service_events on one Windows collector,
\* every record a call returns has a record number above every record
\* number returned by the calls before it, no record is returned twice, and
\* last_service_record_number never decreases.
C20_NoRecordReturnedTwice ==
  /\ []C20_Newer
  /\ [][last_service_record_number' >= last_service_record_number]_vars

\* A call has returned a record after earlier calls returned older ones,
\* and the watermark stands at the record returned last.
C20_Witness ==
  /\ Cardinality(returned) >= 2
  /\ Len(lastBatch) = 1
  /\ last_service_record_number = lastBatch[1]

\* ------------------------------------------------------------------- C21
\* C21: a collect_service_events(limit) call returns at most limit events,
\* so the service monitor's call with limit 50 gives at most 50 events to
\* enqueue.
C21_AtMostLimitEvents ==
  svcCall.done => Len(svcCall.events) <= svcCall.limit

\* ------------------------------------------------------------------- C22
\* C22: on a windows, linux or darwin host get_collector returns a
\* collector that has all five collect operations; on any other host it
\* raises the unsupported-OS error and returns nothing.
C22_FactoryGivesFiveOperations ==
  collector.state # "none" =>
    IF os_name \in {"windows", "linux", "darwin"}
      THEN /\ collector.state = "instance"
           /\ AbstractMethods \subseteq Methods(collector.cls)
      ELSE /\ collector.state = "raised"
           /\ collector.error = "RuntimeError"

\* ------------------------------------------------------------------- C23
\* C23: once the writer's worker thread has died the producers are shut
\* down: no event is put on the queue that no consumer drains any more.
C23_NoEnqueueAfterWorkerDeath ==
  [][wpc = "dead" => Len(queue') <= Len(queue)]_vars

\* ------------------------------------------------------------------- C24
\* C24: when one event of a batch cannot be stored, only that event is
\* skipped: a flush commits every other row of the batch, so the table
\* grows by at least the size of the batch less one.
C24_OnlyTheBadRowIsSkipped ==
  [][FlushStep => Len(sql') >= Len(sql) + FlushedSize - 1]_vars

\* ------------------------------------------------------------------- C25
C25_Calls(s) == [i \in 1..Len(s) |-> s[i].ev]
C25_Increasing(s) == \A i, j \in 1..Len(s) : i < j => s[i] < s[j]

\* C25: events reach SQL in the order they were produced: the rows of the
\* table, then the rows of the batch, then the events waiting in the queue
\* are in the order of the write_event calls that brought them, so the
\* rows of any one event type are inserted in production order.
C25_StoredInProductionOrder ==
  /\ C25_Increasing(C25_Calls(sql) \o C25_Calls(batch) \o C25_Calls(queue))
  /\ C25_Calls(batch) = C25_Calls(rag_batch)

\* Two events of one type are in the table, stored by different flushes or
\* by one, while a later event still waits.
C25_Witness ==
  /\ Len(sql) >= 2
  /\ sql[1].event_type = sql[2].event_type
  /\ sql[1].ev < sql[2].ev
  /\ queue # <<>>

\* ------------------------------------------------------------------- C26
C26_Spikes ==
  IF "hardware_spike" \in DOMAIN toolOut.lists
    THEN toolOut.lists["hardware_spike"].analysis ELSE <<>>

\* C26: the risk_score analyze_hardware_spikes and analyze_all report for a
\* stored spike is the hardware score of its metrics, exe and sub_type,
\* clamped to 10: the stored spike of /tmp/hog with cpu 90 and memory 75
\* (the one spike written here) is reported with 10, and every reported
\* score lies in 0..10.
C26_StoredSpikeGetsItsScore ==
  toolOut.tool \in {"analyze_hardware_spikes", "analyze_all"} =>
    \A i \in 1..Len(C26_Spikes) :
      /\ C26_Spikes[i].risk_score
           = analyze_hardware([details |-> HogEvent.details]).risk_score
      /\ C26_Spikes[i].risk_score = 10

\* ------------------------------------------------------------------- C27
\* C27: a collect_service_events call in which nothing raised returns every
\* record of raw_events[:limit] whose record number is above the watermark
\* the call began with: all the new records, not only the newest.
C27_EveryNewRecordReturned ==
  (winCall.done /\ winCall.clean) =>
    {lastBatch[i] : i \in 1..Len(lastBatch)}
      = {winCall.raw[i] : i \in {j \in 1..Len(winCall.raw) :
                                    winCall.raw[j] > winCall.wm0}}

\* ------------------------------------------------------------------- C28
C28_Type ==
  IF "type" \in DOMAIN subject THEN subject.type
  ELSE IF "event_type" \in DOMAIN subject THEN subject.event_type ELSE ""
C28_Unknown ==
  /\ DOMAIN verdict = {"risk_score", "reasons"}
  /\ verdict.reasons = <<"unknown_type">>

\* C28: analyze_event hands every event of one of the five event types,
\* malware_alert included, to that type's analyzer, every result carries a
\* risk_score and a reasons list, and only a type outside the five gives
\* the unknown-type result with risk_score 0.
C28_EveryTypeDispatched ==
  analysed = "event" =>
    /\ {"risk_score", "reasons"} \subseteq DOMAIN verdict
    /\ C28_Type \in EventType <=> ~C28_Unknown
    /\ C28_Unknown => verdict.risk_score = 0

\* ------------------------------------------------------------------- C29
\* C29 as stated: every document in the vector index belongs to an event
\* that is stored in unified_events.
C29_IndexedEventsAreInSql ==
  \A d \in vec :
    \E n \in DOMAIN flushed : flushed[n].doc = d /\ CountInSql(n) = 1

\* C29 as amended: every document in the vector index is the document of an
\* event of a flushed batch whose bulk insert succeeded; a flushed event is
\* in unified_events exactly when the SQL transaction of its batch
\* succeeded, whatever became of the bulk insert; so the indexed events are
\* all in unified_events as long as no SQL transaction has failed.
C29_IndexedEventsWereFlushed ==
  /\ \A d \in vec :
       \E n \in DOMAIN flushed : flushed[n].doc = d /\ flushed[n].vecOk
  /\ \A n \in DOMAIN flushed : CountInSql(n) = 1 <=> flushed[n].sqlOk
  /\ NoSqlFailure => C29_IndexedEventsAreInSql

\* A batch whose SQL transaction failed has been ingested: its document is
\* in the index and its event is not in the table.
C29_Witness ==
  \E n \in DOMAIN flushed :
    /\ ~flushed[n].sqlOk /\ flushed[n].vecOk
    /\ flushed[n].doc \in vec
    /\ CountInSql(n) = 0

\* ------------------------------------------------------------------- C30
\* C30: cancellation never splits a snapshot.  For the process, service and
\* hardware monitors, a task that is not inside its for loop has put every
\* event of the list its collect call returned or none of them, and nothing
\* of the list is left to write; no task is inside its for loop once the
\* lifespan has cancelled the tasks; and a list that comes back after the
\* cancellation puts nothing on the queue.
C30_CancellationNeverSplitsSnapshot ==
  /\ [](\A m \in Polling :
          /\ task[m] # "writing" =>
                /\ snap[m].pending = <<>>
                /\ snap[m].put \in {0, snap[m].got}
          /\ cancelled => task[m] # "writing")
  /\ [][\A m \in Polling :
          (cancelled /\ job[m] = "running" /\ job'[m] = "none") =>
             queue' = queue]_vars

\* C30 witness: the tasks were cancelled after the process monitor had put
\* both events of a list of two, and while the service monitor's collect
\* call was running; that call's list came back and was discarded whole.
C30_Witness ==
  /\ cancelled
  /\ task["process"] = "done" /\ task["service"] = "done"
  /\ snap["process"].got = 2 /\ snap["process"].put = 2
  /\ "service" \in lost
  /\ Len(queue) = 2
  /\ queue[1].type = "process" /\ queue[2].type = "process"

====
